---- MODULE Spec2Model ----
(***************************************************************************)
(* Model of the resume screening pipeline of Auto-ATS:                     *)
(*   src/processor.py  ResumeProcessor (LLM analysis, chunk aggregation)   *)
(*   src/ranking.py    RankingEngine.rank_candidates                       *)
(*   src/backend.py    the request handlers screen_resumes, screen_resume  *)
(*                                                                         *)
(* Numbers.  A match value (experience_match, education_match) is kept as  *)
(* a numerator over MatchDen.  A score is kept as a numerator over         *)
(* ScoreDen, a common multiple of MatchDen and of every possible number of *)
(* required skills, so that every score of the model is an exact integer   *)
(* number of units.  Scores are exact rationals: the rounding of binary    *)
(* floating point is not modelled.                                         *)
(*                                                                         *)
(* Strings.  A skill is [id, cap]: its identity up to case, and whether it *)
(* is spelled with capitals ("Python") or all lower-case ("python").       *)
(*                                                                         *)
(* Python values.  A value the LLM may put in a JSON field is a record     *)
(* [t, n, l, len]: its type tag, its number, its list and its len().       *)
(***************************************************************************)
EXTENDS Integers, Sequences, FiniteSets, TLC

VARIABLES
    requirements,       \* the job requirements of the request
    processor_globals,  \* names bound in the namespace of module processor
    request,            \* the request being served and what its I/O meets
    pc,                 \* position of the request handler
    listing,            \* resumes listed by the storage connector (names)
    idx,                \* next resume of the batch loop
    inputs,             \* what happened to each resume handled so far
    candidates,         \* screen_resumes: the candidates list
    ranked,             \* what rank_candidates returned
    rank_exc,           \* the exception rank_candidates raised, or "none"
    response,           \* the HTTP response of the request
    llm,                \* analyze_resume alone: the LLM outcome it met
    analysis,           \* analyze_resume alone: its outcome
    text,               \* chunk_text alone: its argument text, a list of characters
    max_tokens,         \* chunk_text alone: its argument max_tokens
    chunks,             \* chunk_text alone: the list it returned
    cpc,                \* chunk_text alone: before or after the call
    calls,              \* rate_limit: the quota of the decorator
    period,             \* rate_limit: the window of the decorator
    timestamps,         \* rate_limit: the list the wrapper keeps
    clock,              \* rate_limit: what time.time() returns
    lpc,                \* rate_limit: position of the caller in wrapper
    now,                \* rate_limit: the local `now` of the running wrapper
    entered,            \* rate_limit: the calls of wrapper so far
    executions,         \* rate_limit: the calls of the wrapped function so far
    upload,             \* upload_resume: the uploaded file and its temporary copy
    scoring,            \* the two score formulas alone: one candidate's scores
    exp_text,           \* _extract_experience alone: its argument text
    experiences,        \* _extract_experience alone: the list it returned
    epc,                \* _extract_experience alone: before or after the call
    threads,            \* rate_limit: the threads inside wrapper
    normalized          \* RankingEngine.calculate_match_score alone: its outcome

serverVars == <<requirements, processor_globals, request, pc, listing, idx,
                inputs, candidates, ranked, rank_exc, response, llm, analysis,
                upload>>

chunkerVars == <<text, max_tokens, chunks, cpc>>

limiterVars == <<calls, period, timestamps, clock, lpc, now, entered, executions>>

otherVars == <<scoring, exp_text, experiences, epc, threads, normalized>>

vars == <<serverVars, chunkerVars, limiterVars, otherVars>>

\* chunk_text is not running.
NoChunker == text = <<>> /\ max_tokens = 0 /\ chunks = <<>> /\ cpc = "off"

\* No function is decorated with rate_limit.
NoLimiter ==
    /\ calls = 0 /\ period = 0 /\ timestamps = <<>> /\ clock = 0
    /\ lpc = "off" /\ now = 0 /\ entered = 0 /\ executions = <<>>

\* The two score formulas are not being compared.
NoScoring == scoring = [stage |-> "off"]

\* _extract_experience is not running.
NoExperience == exp_text = <<>> /\ experiences = <<>> /\ epc = "off"

\* No thread is inside wrapper.
NoThreads == threads = <<>>

\* RankingEngine.calculate_match_score is not running.
NoNormalized == normalized = [exc |-> "off"]

NoOther == NoScoring /\ NoExperience /\ NoThreads /\ NoNormalized

\* No file is uploaded.
NoUpload == upload = [extension |-> "none", suffix |-> "none"]

(***************************************************************************)
(* Bounds                                                                  *)
(***************************************************************************)
MaxRequired == 2
MaxSkillList == 2
MaxResumes == 2
MatchDen == 2

RECURSIVE Fact(_)
Fact(k) == IF k <= 1 THEN 1 ELSE k * Fact(k - 1)

ScoreDen == MatchDen * Fact(MaxRequired)

(***************************************************************************)
(* Skills                                                                  *)
(***************************************************************************)
Skill(i, c) == [id |-> i, cap |-> c]

\* str.lower()
Lower(s) == [s EXCEPT !.cap = FALSE]

LowerSet(l) == {Lower(l[i]) : i \in DOMAIN l}

\* The required skills of a job: capitalised names, as in the example of
\* JobRequirements ("Python", "FastAPI", "Docker").
RequiredSkills(k) == [i \in 1..k |-> Skill(i, TRUE)]

Requirements == {[required_skills |-> RequiredSkills(k)] : k \in 0..MaxRequired}

\* The spellings the LLM answers with: a required skill in lower case and a
\* required skill spelled as in the requirements.
LLMSkills == {Skill(1, FALSE), Skill(2, TRUE)}

SeqsUpTo(S, k) == UNION {[1..m -> S] : m \in 0..k}

(***************************************************************************)
(* Python values                                                           *)
(***************************************************************************)
JNull == [t |-> "null", n |-> 0, l |-> <<>>, len |-> 0]
JNum(k) == [t |-> "num", n |-> k, l |-> <<>>, len |-> 0]
JBool(b) == [t |-> "bool", n |-> IF b THEN MatchDen ELSE 0, l |-> <<>>, len |-> 0]
JList(s) == [t |-> "list", n |-> 0, l |-> s, len |-> Len(s)]
\* a string that does not read as a number, of k characters
JStr(k) == [t |-> "str", n |-> 0, l |-> <<>>, len |-> k]
\* a string that reads as the number k / MatchDen, such as "0.5"
JNumStr(k) == [t |-> "numstr", n |-> k, l |-> <<>>, len |-> 3]
\* a JSON object of k members
JDict(k) == [t |-> "dict", n |-> 0, l |-> <<>>, len |-> k]

\* len(v) is defined
HasLen(v) == v.t \in {"list", "str", "numstr", "dict"}

\* v * 0.3 and float(v) are defined for numbers and booleans
IsNumber(v) == v.t \in {"num", "bool"}

(***************************************************************************)
(* The LLM                                                                 *)
(***************************************************************************)
Fields == {"matching_skills", "missing_skills", "experience_match",
           "education_match", "reasoning"}

\* The parsed content of an LLM reply.  t is the JSON type of the document;
\* keys is the set of field names f for which the Python test `f in result`
\* is true (the members of an object, the elements of an array, the
\* substrings of a string).
Doc(t, keys, ms, xs, em, dm) ==
    [t |-> t, keys |-> keys, matching_skills |-> ms, missing_skills |-> xs,
     experience_match |-> em, education_match |-> dm]

NoDoc == Doc("none", {}, JNull, JNull, JNull, JNull)

\* What one call of client.chat.completions.create can end in.
LLMReply(kind, doc) == [kind |-> kind, doc |-> doc]

SkillListValues == {JList(s) : s \in SeqsUpTo(LLMSkills, MaxSkillList)}

\* Values of a skills field: lists of skills, and wrongly typed values.
SkillsValues == SkillListValues \cup {JNull, JNum(MatchDen), JStr(6), JDict(1)}

\* Values of a match field: -1/MatchDen .. (MatchDen+1)/MatchDen, and wrongly
\* typed values.
MatchValues == {JNum(k) : k \in {-1, 0, 1, MatchDen, MatchDen + 1}}
                 \cup {JNull, JBool(TRUE), JNumStr(1)}

FullObjects == {Doc("object", Fields, ms, xs, em, dm) :
                  ms \in SkillsValues, xs \in SkillsValues,
                  em \in MatchValues, dm \in MatchValues}

\* Objects that lack one of the five keys.
PartialObjects == {Doc("object", Fields \ {f}, JList(<<>>), JList(<<>>),
                       JNum(MatchDen), JNum(MatchDen)) : f \in Fields}

\* JSON documents that are not objects.
NonObjects == {Doc("array", {}, JNull, JNull, JNull, JNull),
               Doc("array", Fields, JNull, JNull, JNull, JNull),
               Doc("string", {}, JNull, JNull, JNull, JNull),
               Doc("string", Fields, JNull, JNull, JNull, JNull),
               Doc("number", {}, JNull, JNull, JNull, JNull),
               Doc("null", {}, JNull, JNull, JNull, JNull)}

LLMFailures == {LLMReply(k, NoDoc) :
                  k \in {"transport_error", "timeout", "no_content", "not_json"}}

LLMReplies == LLMFailures
                \cup {LLMReply("json", d) :
                        d \in FullObjects \cup PartialObjects \cup NonObjects}

(***************************************************************************)
(* ResumeProcessor.analyze_resume                                          *)
(***************************************************************************)
\* A Python outcome: the exception raised ("none": a normal return) and the
\* value returned.
Raise(e) == [exc |-> e, val |-> <<>>]
Return(v) == [exc |-> "none", val |-> v]

\* The result dict of an analysis.
Result(ms, xs, em, dm, score, reasoning) ==
    [matching_skills |-> ms, missing_skills |-> xs, experience_match |-> em,
     education_match |-> dm, overall_score |-> score, reasoning |-> reasoning]

\* _get_default_scores
GetDefaultScores(req) ==
    Result(JList(<<>>), JList(req.required_skills), JNum(0), JNum(0), 0,
           "Failed to analyze resume")

\* the weights of processor.py, in tenths
AnalysisSkillsTenths == 5
AnalysisExperienceTenths == 3
AnalysisEducationTenths == 2
AnalysisPercent == 100

\* Variant of SkillsScore: the denominator is forced to at least 1 instead of
\* the skills term being 0 without required skills.
SkillsScoreNoZeroGuard(m, n) == m * (ScoreDen \div (IF n > 0 THEN n ELSE 1))

\* skills_score = len(matching_skills) / num_required_skills if
\* num_required_skills > 0 else 0, as a number of ScoreDen units
SkillsScore(m, n) == IF n > 0 THEN m * (ScoreDen \div n) ELSE 0

\* (skills_score * 0.5 + experience_match * 0.3 + education_match * 0.2) * 100
\* for m matching skills of n required and match values e, d (numerators over
\* MatchDen), as a number of ScoreDen units
AnalysisScore(m, n, e, d) ==
    ((AnalysisSkillsTenths * SkillsScore(m, n)
        + AnalysisExperienceTenths * e * (ScoreDen \div MatchDen)
        + AnalysisEducationTenths * d * (ScoreDen \div MatchDen))
       * AnalysisPercent) \div 10

\* The body of the inner try block: from the reply to the updated result.
AnalyzeParse(req, o) ==
    LET d == o.doc
        n == Len(req.required_skills)
    IN  IF o.kind = "transport_error" THEN Raise("APIConnectionError")
        ELSE IF o.kind = "timeout" THEN Raise("APITimeoutError")
        ELSE IF o.kind = "no_content" THEN Raise("AttributeError")
        ELSE IF o.kind = "not_json" THEN Raise("JSONDecodeError")
        \* `field in result` on a number or null
        ELSE IF d.t \in {"number", "null"} THEN Raise("TypeError")
        ELSE IF ~(Fields \subseteq d.keys) THEN Raise("ValueError")
        \* result['matching_skills'] on an array or a string
        ELSE IF d.t # "object" THEN Raise("TypeError")
        ELSE IF n > 0 /\ ~HasLen(d.matching_skills) THEN Raise("TypeError")
        ELSE IF ~IsNumber(d.experience_match) THEN Raise("TypeError")
        ELSE IF ~IsNumber(d.education_match) THEN Raise("TypeError")
        ELSE Return(Result(d.matching_skills, d.missing_skills,
                           d.experience_match, d.education_match,
                           AnalysisScore(d.matching_skills.len, n,
                                         d.experience_match.n,
                                         d.education_match.n),
                           "llm"))

\* Variant of AnalyzeCaught: only the classes of the inner handler.
AnalyzeCaughtParseErrorsOnly == {"JSONDecodeError", "KeyError", "ValueError"}

\* `except Exception` of analyze_resume: the classes it catches.
AnalyzeCaught == {"APIConnectionError", "APITimeoutError", "AttributeError",
                  "JSONDecodeError", "KeyError", "ValueError", "TypeError",
                  "ZeroDivisionError"}

\* analyze_resume: the inner handler logs and re-raises, the outer one
\* returns the default scores.
AnalyzeResume(req, o) ==
    LET r == AnalyzeParse(req, o)
    IN  IF r.exc = "none" THEN r
        ELSE IF r.exc \in AnalyzeCaught THEN Return(GetDefaultScores(req))
        ELSE r

(***************************************************************************)
(* The modules and the requests                                            *)
(***************************************************************************)
\* The names module processor binds: its imports and its class.
ProcessorGlobals ==
    {"os", "json", "logging", "re", "Dict", "List", "Groq", "PyPDFLoader",
     "Docx2txtLoader", "RecursiveCharacterTextSplitter", "HuggingFaceEmbeddings",
     "FAISS", "ChatGroq", "LLMChain", "PromptTemplate", "load_dotenv",
     "CommaSeparatedListOutputParser", "ResumeProcessor"}

Request(endpoint, content_type, requirements_json, load) ==
    [endpoint |-> endpoint, content_type |-> content_type,
     requirements_json |-> requirements_json, load |-> load]

NoRequest == Request("none", "none", "none", "none")

\* An HTTP response: its status and the candidates of its body.
Response(status, body) == [status |-> status, body |-> body]

NoResponse == Response(0, <<>>)

(***************************************************************************)
(* analyze_resume on its own: one call on any reply of the LLM             *)
(***************************************************************************)
NoAnalysis == [exc |-> "none", val |-> GetDefaultScores([required_skills |-> <<>>])]

InitAnalysis ==
    /\ requirements \in Requirements
    /\ processor_globals = ProcessorGlobals
    /\ request = NoRequest
    /\ pc = "analyze"
    /\ listing = <<>>
    /\ idx = 1
    /\ inputs = <<>>
    /\ candidates = <<>>
    /\ ranked = <<>>
    /\ rank_exc = "none"
    /\ response = NoResponse
    /\ llm = LLMReply("timeout", NoDoc)
    /\ analysis = NoAnalysis
    /\ NoChunker
    /\ NoLimiter
    /\ NoOther
    /\ NoUpload

Analyze ==
    /\ pc = "analyze"
    /\ \E o \in LLMReplies :
         /\ llm' = o
         /\ analysis' = AnalyzeResume(requirements, o)
    /\ pc' = "analyzed"
    /\ UNCHANGED <<chunkerVars, limiterVars, otherVars, upload>>
    /\ UNCHANGED <<requirements, processor_globals, request, listing, idx,
                   inputs, candidates, ranked, rank_exc, response>>

NextAnalysis == Analyze

SpecAnalysis == InitAnalysis /\ [][NextAnalysis]_vars

(***************************************************************************)
(* RankingEngine.rank_candidates                                           *)
(***************************************************************************)
\* A candidate dict as screen_resumes builds it.  skills_match is Absent until
\* rank_candidates sets the key.
Absent == 0 - 1

Candidate(name, r) ==
    [name |-> name, matching_skills |-> r.matching_skills,
     missing_skills |-> r.missing_skills,
     experience_match |-> r.experience_match,
     education_match |-> r.education_match,
     overall_score |-> r.overall_score, reasoning |-> r.reasoning,
     skills_match |-> Absent]

\* float(v): the exception it raises on v, or "none"
FloatExc(v) ==
    IF v.t \in {"num", "bool", "numstr"} THEN "none"
    ELSE IF v.t = "str" THEN "ValueError"
    ELSE "TypeError"

\* the weights of ranking.py
RankSkillsWeight == 50
RankExperienceWeight == 30
RankEducationWeight == 20
RankPercent == 100

\* skills_match = len(matching_skills) / total_required if total_required > 0
\* else 0.0, as a number of ScoreDen units
SkillsMatch(m, n) == IF n > 0 THEN m * (ScoreDen \div n) ELSE 0

\* Variant of RankScore: the weights of skills and experience exchanged.
RankScoreSwapped(m, n, e, d) ==
    SkillsMatch(m, n) * RankExperienceWeight
      + e * (ScoreDen \div MatchDen) * RankSkillsWeight
      + d * (ScoreDen \div MatchDen) * RankEducationWeight

\* skills_match * 50 + experience_match * 30 + education_match * 20
RankScore(m, n, e, d) ==
    SkillsMatch(m, n) * RankSkillsWeight
      + e * (ScoreDen \div MatchDen) * RankExperienceWeight
      + d * (ScoreDen \div MatchDen) * RankEducationWeight

\* One pass of the scoring loop over candidate c.
ScoreCandidate(c, req) ==
    LET n == Len(req.required_skills)
    IN  IF n > 0 /\ ~HasLen(c.matching_skills) THEN Raise("TypeError")
        ELSE IF FloatExc(c.experience_match) # "none"
             THEN Raise(FloatExc(c.experience_match))
        ELSE IF FloatExc(c.education_match) # "none"
             THEN Raise(FloatExc(c.education_match))
        ELSE Return([c EXCEPT
                 !.overall_score = RankScore(c.matching_skills.len, n,
                                             c.experience_match.n,
                                             c.education_match.n),
                 !.skills_match = SkillsMatch(c.matching_skills.len, n)
                                    * RankPercent])

\* The scoring loop: the candidates are updated in place, in list order, up to
\* the first one that raises.
RECURSIVE ScoreLoop(_, _, _)
ScoreLoop(cands, req, i) ==
    IF i > Len(cands) THEN [exc |-> "none", cands |-> cands]
    ELSE LET r == ScoreCandidate(cands[i], req)
         IN  IF r.exc # "none" THEN [exc |-> r.exc, cands |-> cands]
             ELSE ScoreLoop([cands EXCEPT ![i] = r.val], req, i + 1)

\* The sort key of a candidate can be computed: both len() are defined.
HasSortKey(c) == HasLen(c.matching_skills) /\ HasLen(c.missing_skills)

\* Variant of SortKey: the number of missing skills is not negated.
SortKeyMissingAscending(c) ==
    <<c.overall_score, c.matching_skills.len, c.missing_skills.len>>

\* The sort key (overall_score, len(matching_skills), -len(missing_skills)).
SortKey(c) == <<c.overall_score, c.matching_skills.len, 0 - c.missing_skills.len>>

\* Variant of TupleLess: k1 <= k2, so that equal keys count as out of order.
TupleLessOrEqual(k1, k2) ==
    \/ k1[1] < k2[1]
    \/ k1[1] = k2[1] /\ k1[2] < k2[2]
    \/ k1[1] = k2[1] /\ k1[2] = k2[2] /\ k1[3] <= k2[3]

\* Python's order of tuples: k1 < k2
TupleLess(k1, k2) ==
    \/ k1[1] < k2[1]
    \/ k1[1] = k2[1] /\ k1[2] < k2[2]
    \/ k1[1] = k2[1] /\ k1[2] = k2[2] /\ k1[3] < k2[3]

\* Variant of InsertPos: x goes before the elements of equal key as well, as
\* in a list sorted ascending and then reversed.
RECURSIVE InsertPosBeforeTies(_, _, _)
InsertPosBeforeTies(out, x, i) ==
    IF i > Len(out) \/ ~TupleLess(SortKey(x), SortKey(out[i])) THEN i
    ELSE InsertPosBeforeTies(out, x, i + 1)

\* Where x goes into the descending list out: before the first element whose
\* key is less than the key of x, after every other one.
RECURSIVE InsertPos(_, _, _)
InsertPos(out, x, i) ==
    IF i > Len(out) \/ TupleLess(SortKey(out[i]), SortKey(x)) THEN i
    ELSE InsertPos(out, x, i + 1)

\* Variant of InsertDesc: a candidate whose key is already in the list is
\* dropped, as in a sort of the set of keys.
InsertDescUnique(out, x) ==
    IF \E k \in DOMAIN out : SortKey(out[k]) = SortKey(x) THEN out
    ELSE LET i == InsertPos(out, x, 1)
         IN  SubSeq(out, 1, i - 1) \o <<x>> \o SubSeq(out, i, Len(out))

InsertDesc(out, x) ==
    LET i == InsertPos(out, x, 1)
    IN  SubSeq(out, 1, i - 1) \o <<x>> \o SubSeq(out, i, Len(out))

\* sorted(candidates, key = ..., reverse = True): descending, and stable
\* (candidates of equal keys keep their order).
RECURSIVE SortedDesc(_, _, _)
SortedDesc(cands, out, i) ==
    IF i > Len(cands) THEN out
    ELSE SortedDesc(cands, InsertDesc(out, cands[i]), i + 1)

\* rank_candidates: [exc, val: the ranked list, cands: the list passed in, as
\* it is left].  Any exception is logged and raised again.
RankCandidates(cands, req) ==
    LET scored == ScoreLoop(cands, req, 1)
    IN  IF scored.exc # "none"
        THEN [exc |-> scored.exc, val |-> <<>>, cands |-> scored.cands]
        ELSE IF \E i \in DOMAIN scored.cands : ~HasSortKey(scored.cands[i])
        THEN [exc |-> "TypeError", val |-> <<>>, cands |-> scored.cands]
        ELSE [exc |-> "none", val |-> SortedDesc(scored.cands, <<>>, 1),
              cands |-> scored.cands]

(***************************************************************************)
(* backend.screen_resumes                                                  *)
(***************************************************************************)
\* What handling one resume of the batch meets: its download fails, its text
\* extraction fails, or it is analysed with the LLM replying `reply`.
Event(kind, reply) == [kind |-> kind, reply |-> reply]

MatchedOne == JList(<<Skill(1, FALSE)>>)
MatchedTwo == JList(<<Skill(1, FALSE), Skill(2, TRUE)>>)

\* The replies of the LLM in a batch: well-formed analyses of every score
\* level, analyses with a wrongly typed skills field, and a failed call.
ScreeningMatches == {<<1, 1>>, <<MatchDen, MatchDen>>, <<MatchDen + 1, MatchDen + 1>>,
                     <<MatchDen, 0>>, <<0, MatchDen>>}

ScreeningReplies ==
    {LLMReply("json", Doc("object", Fields, ms, xs, JNum(k[1]), JNum(k[2]))) :
        ms \in {MatchedOne, MatchedTwo},
        xs \in {JList(<<>>), JList(<<Skill(2, TRUE)>>), JNull},
        k \in ScreeningMatches}
      \cup {LLMReply("json", Doc("object", Fields, ms, JList(<<>>),
                                 JNum(MatchDen), JNum(MatchDen))) :
              ms \in {JStr(6), JNum(MatchDen)}}
      \cup {LLMReply("timeout", NoDoc)}

ResumeEvents == {Event("download_error", LLMReply("none", NoDoc)),
                 Event("load_error", LLMReply("none", NoDoc))}
                  \cup {Event("analyzed", o) : o \in ScreeningReplies}

\* CandidateResponse(...): pydantic accepts a list for a List[str] field and
\* a number for a float field.
ValidCandidateResponse(c) ==
    /\ c.matching_skills.t = "list"
    /\ c.missing_skills.t = "list"
    /\ FloatExc(c.experience_match) = "none"
    /\ FloatExc(c.education_match) = "none"

CandidateResponse(c) ==
    [name |-> c.name, match_score |-> c.overall_score,
     matching_skills |-> c.matching_skills, missing_skills |-> c.missing_skills,
     experience_match |-> c.experience_match.n,
     education_match |-> c.education_match.n]

Init ==
    /\ requirements \in Requirements
    /\ processor_globals = ProcessorGlobals
    /\ request = NoRequest
    /\ pc = "idle"
    /\ listing = <<>>
    /\ idx = 1
    /\ inputs = <<>>
    /\ candidates = <<>>
    /\ ranked = <<>>
    /\ rank_exc = "none"
    /\ response = NoResponse
    /\ llm = LLMReply("none", NoDoc)
    /\ analysis = NoAnalysis
    /\ NoChunker
    /\ NoLimiter
    /\ NoOther
    /\ NoUpload

\* screen_resumes up to the loop: the folder id is checked and the resumes are
\* listed.
ListResumes ==
    /\ pc = "idle"
    /\ request' = Request("screen_resumes", "none", "none", "none")
    /\ \/ \* blank folder_id
          /\ response' = Response(400, <<>>)
          /\ pc' = "done"
          /\ UNCHANGED listing
       \/ \* list_resumes raises RuntimeError
          /\ response' = Response(500, <<>>)
          /\ pc' = "done"
          /\ UNCHANGED listing
       \/ \* no resumes in the folder
          /\ response' = Response(404, <<>>)
          /\ pc' = "done"
          /\ UNCHANGED listing
       \/ \E k \in 1..MaxResumes :
            /\ listing' = [i \in 1..k |-> i]
            /\ pc' = "loop"
            /\ UNCHANGED response
    /\ UNCHANGED <<chunkerVars, limiterVars, otherVars, upload>>
    /\ UNCHANGED <<requirements, processor_globals, idx, inputs, candidates,
                   ranked, rank_exc, llm, analysis>>

\* Variant of ProcessResume: a resume whose download or text extraction fails
\* is kept in the candidates list with the default scores.
ProcessResumeKeepsFailed ==
    /\ pc = "loop"
    /\ idx <= Len(listing)
    /\ \E ev \in ResumeEvents :
         /\ inputs' = Append(inputs, ev)
         /\ LET a == IF ev.kind = "analyzed"
                     THEN AnalyzeResume(requirements, ev.reply)
                     ELSE Return(GetDefaultScores(requirements))
            IN  candidates' = Append(candidates, Candidate(listing[idx], a.val))
    /\ idx' = idx + 1
    /\ UNCHANGED <<chunkerVars, limiterVars, otherVars, upload>>
    /\ UNCHANGED <<requirements, processor_globals, request, pc, listing,
                   ranked, rank_exc, response, llm, analysis>>

\* One iteration of the loop over the resumes: download, load_resume,
\* preprocess_resume, analyze_resume, candidates.append; any exception is
\* logged and the loop continues.
ProcessResume ==
    /\ pc = "loop"
    /\ idx <= Len(listing)
    /\ \E ev \in ResumeEvents :
         /\ inputs' = Append(inputs, ev)
         /\ IF ev.kind = "analyzed"
            THEN LET a == AnalyzeResume(requirements, ev.reply)
                 IN  candidates' =
                       IF a.exc = "none"
                       THEN Append(candidates, Candidate(listing[idx], a.val))
                       ELSE candidates
            ELSE UNCHANGED candidates
    /\ idx' = idx + 1
    /\ UNCHANGED <<chunkerVars, limiterVars, otherVars, upload>>
    /\ UNCHANGED <<requirements, processor_globals, request, pc, listing,
                   ranked, rank_exc, response, llm, analysis>>

\* screen_resumes after the loop: 422 without candidates, else
\* rank_candidates and the response.
RankAndRespond ==
    /\ pc = "loop"
    /\ idx > Len(listing)
    /\ pc' = "done"
    /\ IF candidates = <<>>
       THEN /\ response' = Response(422, <<>>)
            /\ UNCHANGED <<candidates, ranked, rank_exc>>
       ELSE LET r == RankCandidates(candidates, requirements)
            IN  /\ candidates' = r.cands
                /\ ranked' = r.val
                /\ rank_exc' = r.exc
                /\ response' =
                     IF r.exc # "none" THEN Response(500, <<>>)
                     ELSE IF \E i \in DOMAIN r.val : ~ValidCandidateResponse(r.val[i])
                          THEN Response(500, <<>>)
                     ELSE Response(200, [i \in DOMAIN r.val |->
                                           CandidateResponse(r.val[i])])
    /\ UNCHANGED <<chunkerVars, limiterVars, otherVars, upload>>
    /\ UNCHANGED <<requirements, processor_globals, request, listing, idx,
                   inputs, llm, analysis>>

(***************************************************************************)
(* ResumeProcessor.calculate_match_score and backend.screen_resume         *)
(***************************************************************************)
\* The dict _process_chunk returns when its LLM call or json.loads raises.
ChunkDefault(req) ==
    Doc("object", Fields \ {"reasoning"}, JList(<<>>),
        JList(req.required_skills), JNum(0), JNum(0))

\* _process_chunk: the parsed reply, whatever JSON it is, or the default.
ProcessChunk(req, o) == IF o.kind = "json" THEN o.doc ELSE ChunkDefault(req)

\* result.get(f, default)
DocGet(d, f, default) == IF f \in d.keys THEN d[f] ELSE default

\* The elements set.update(v) adds.  The characters of a string and the keys
\* of an object are no skill names: they are kept as the one skill of id 0.
Elements(v) ==
    IF v.t = "list" THEN {v.l[i] : i \in DOMAIN v.l}
    ELSE IF v.len > 0 THEN {Skill(0, FALSE)} ELSE {}

Max(a, b) == IF a >= b THEN a ELSE b

\* One pass of the loop over the chunks.  An exception leaves the loop body
\* where it is raised: what was assigned before it stays.
AggregateChunk(acc, d) ==
    LET ms == DocGet(d, "matching_skills", JList(<<>>))
        em == DocGet(d, "experience_match", JNum(0))
        dm == DocGet(d, "education_match", JNum(0))
        a1 == [acc EXCEPT !.all_skills = acc.all_skills \cup Elements(ms)]
        a2 == [a1 EXCEPT !.experience_match = Max(a1.experience_match, em.n)]
        a3 == [a2 EXCEPT !.education_match = Max(a2.education_match, dm.n)]
    IN  IF d.t # "object" THEN acc           \* result.get: AttributeError
        ELSE IF ~HasLen(ms) THEN acc         \* set.update: TypeError
        ELSE IF FloatExc(em) # "none" THEN a1
        ELSE IF FloatExc(dm) # "none" THEN a2
        ELSE a3

RECURSIVE AggregateChunks(_, _, _, _)
AggregateChunks(acc, req, replies, i) ==
    IF i > Len(replies) THEN acc
    ELSE AggregateChunks(AggregateChunk(acc, ProcessChunk(req, replies[i])),
                         req, replies, i + 1)

\* calculate_match_score, the LLM replying replies[i] on chunk i.  The name
\* chunk_text is looked up in the module's globals when line 96 runs; the
\* NameError is logged and raised again.  The result holds the two sets that
\* list() turns into lists.
CalculateMatchScore(globals, req, replies) ==
    IF "chunk_text" \notin globals THEN Raise("NameError")
    ELSE LET acc == AggregateChunks([all_skills |-> {}, experience_match |-> 0,
                                     education_match |-> 0], req, replies, 1)
             required == {req.required_skills[i] : i \in DOMAIN req.required_skills}
         IN  Return([matching_skills |-> acc.all_skills,
                     missing_skills |-> required \ acc.all_skills,
                     experience_match |-> acc.experience_match,
                     education_match |-> acc.education_match,
                     keys |-> {"matching_skills", "missing_skills",
                               "experience_match", "education_match"}])

\* The orders list(S) can give the elements of a set S.
Orders(S) == {q \in [1..Cardinality(S) -> S] :
                \A i, j \in DOMAIN q : i # j => q[i] # q[j]}

\* match_score.get('match_percentage', 0.0)
MatchPercentage(score) ==
    IF "match_percentage" \in score.keys THEN score.match_percentage ELSE 0

MaxChunks == 2

\* The replies of the LLM on the chunks of a resume, for requirements req: a
\* failed call, an analysis that finds every required skill with both match
\* values 1, one that finds no skill, one that spells the skills it finds in
\* lower case, and one whose education_match is a word.
ChunkReplies(req) ==
    {LLMReply("timeout", NoDoc),
     LLMReply("json", Doc("object", Fields \ {"reasoning"},
                          JList(req.required_skills), JList(<<>>),
                          JNum(MatchDen), JNum(MatchDen))),
     LLMReply("json", Doc("object", Fields \ {"reasoning"}, JList(<<>>),
                          JList(req.required_skills), JNum(1), JNum(0))),
     LLMReply("json", Doc("object", Fields \ {"reasoning"},
                          JList([i \in DOMAIN req.required_skills |->
                                   Lower(req.required_skills[i])]),
                          JList(<<>>), JNum(1), JNum(1))),
     LLMReply("json", Doc("object", Fields \ {"reasoning"},
                          JList(req.required_skills), JList(<<>>),
                          JNum(MatchDen), JStr(4)))}

\* screen_resume: every exception, the HTTPException(400) of its own checks
\* included, is caught by `except Exception` and answered with status 500.
ScreenResume ==
    /\ pc = "idle"
    /\ pc' = "done"
    /\ \E ct \in {"application/pdf", "text/plain"},
          rj \in {"valid", "invalid"},
          ld \in {"ok", "error"},
          replies \in SeqsUpTo(ChunkReplies(requirements), MaxChunks) :
         /\ request' = Request("screen_resume", ct, rj, ld)
         /\ inputs' = [i \in DOMAIN replies |-> Event("chunk", replies[i])]
         /\ IF ct # "application/pdf" \/ rj = "invalid" \/ ld = "error"
            THEN response' = Response(500, <<>>)
            ELSE LET r == CalculateMatchScore(processor_globals, requirements,
                                              replies)
                 IN  IF r.exc # "none" THEN response' = Response(500, <<>>)
                     ELSE \E ms \in Orders(r.val.matching_skills),
                             xs \in Orders(r.val.missing_skills) :
                            response' = Response(200,
                              <<[name |-> 1,
                                 match_score |-> MatchPercentage(r.val),
                                 matching_skills |-> JList(ms),
                                 missing_skills |-> JList(xs),
                                 experience_match |-> r.val.experience_match,
                                 education_match |-> r.val.education_match]>>)
    /\ UNCHANGED <<chunkerVars, limiterVars, otherVars, upload>>
    /\ UNCHANGED <<requirements, processor_globals, listing, idx, candidates,
                   ranked, rank_exc, llm, analysis>>

(***************************************************************************)
(* backend.upload_resume                                                   *)
(***************************************************************************)
\* The extensions load_resume has a loader for.
SupportedExtensions == {".pdf", ".docx", ".doc"}

\* The extensions of the uploaded files.
UploadExtensions == SupportedExtensions \cup {".txt"}

\* os.path.splitext(temp_file.name)[1] for tempfile.NamedTemporaryFile(
\* delete=False): no suffix is asked for, and the name is "tmp" followed by
\* letters, digits and underscores.
UploadTempExtension == ""

\* load_resume(file_path) for a path of extension ext, the document loader
\* meeting `load`: the text is read ("ok") or the loader raises.
LoadResume(ext, load) ==
    IF ext \in SupportedExtensions
    THEN IF load = "ok" THEN [exc |-> "none", detail |-> "none"]
         ELSE [exc |-> "LoaderError", detail |-> "loader"]
    ELSE [exc |-> "ValueError", detail |-> "Unsupported file format"]

\* upload_resume: the upload is copied to a temporary file, load_resume reads
\* the copy and extract_skills, which raises nothing, lists the skills; every
\* exception is answered with status 400 and its message.
UploadResume ==
    /\ pc = "idle"
    /\ pc' = "done"
    /\ \E ext \in UploadExtensions, ld \in {"ok", "error"}, skills \in 0..1 :
         /\ request' = Request("upload_resume", "none", "none", ld)
         /\ upload' = [extension |-> ext, suffix |-> UploadTempExtension]
         /\ LET r == LoadResume(UploadTempExtension, ld)
            IN  response' =
                  IF r.exc # "none"
                  THEN Response(400, <<[detail |-> r.detail]>>)
                  ELSE Response(200, <<[extracted_skills |-> skills,
                                        status |-> "processed"]>>)
    /\ UNCHANGED <<chunkerVars, limiterVars, otherVars>>
    /\ UNCHANGED <<requirements, processor_globals, listing, idx, inputs,
                   candidates, ranked, rank_exc, llm, analysis>>

Next ==
    \/ ListResumes
    \/ ScreenResume
    \/ UploadResume
    \/ ProcessResume
    \/ RankAndRespond

Spec == Init /\ [][Next]_vars

(***************************************************************************)
(* utils.chunk_text on its own: one call on any text                       *)
(***************************************************************************)
MaxTextLen == 7
MaxTokens == 1

\* chars_per_chunk = max_tokens * 4
CharsPerToken == 4

\* The characters of a text: two letters, the blank and the full stop.
Alphabet == {"a", "b", " ", "."}

\* The characters str.strip() removes, of those the texts of the model hold.
Whitespace == {" ", "\n"}

Texts == SeqsUpTo(Alphabet, MaxTextLen)

\* text.split('.'): the fragments of t from character i on, after the
\* fragment cur under way.
RECURSIVE Split(_, _, _)
Split(t, i, cur) ==
    IF i > Len(t) THEN <<cur>>
    ELSE IF t[i] = "." THEN <<cur>> \o Split(t, i + 1, <<>>)
    ELSE Split(t, i + 1, Append(cur, t[i]))

RECURSIVE LStrip(_)
LStrip(s) == IF s # <<>> /\ Head(s) \in Whitespace THEN LStrip(Tail(s)) ELSE s

RECURSIVE RStrip(_)
RStrip(s) ==
    IF s # <<>> /\ s[Len(s)] \in Whitespace THEN RStrip(SubSeq(s, 1, Len(s) - 1))
    ELSE s

\* s.strip()
Strip(s) == RStrip(LStrip(s))

\* [s.strip() for s in text.split('.') if s.strip()]
Sentences(t) ==
    LET fragments == Split(t, 1, <<>>)
        stripped == [i \in DOMAIN fragments |-> Strip(fragments[i])]
    IN  SelectSeq(stripped, LAMBDA s : s # <<>>)

\* '. '.join(ss)
RECURSIVE Join(_)
Join(ss) ==
    IF ss = <<>> THEN <<>>
    ELSE IF Len(ss) = 1 THEN ss[1]
    ELSE ss[1] \o <<".", " ">> \o Join(Tail(ss))

\* '. '.join(current_chunk) + '.'
ChunkOf(current_chunk) == Join(current_chunk) \o <<".">>

\* Variant of ChunkLoop: current_chunk is not emptied when a chunk is closed.
RECURSIVE ChunkLoopNoReset(_, _, _, _, _, _)
ChunkLoopNoReset(sentences, i, chs, current_chunk, current_length, chars_per_chunk) ==
    IF i > Len(sentences)
    THEN IF current_chunk # <<>> THEN Append(chs, ChunkOf(current_chunk)) ELSE chs
    ELSE LET sentence_length == Len(sentences[i])
             closes == /\ current_length + sentence_length > chars_per_chunk
                       /\ current_chunk # <<>>
         IN  ChunkLoopNoReset(sentences, i + 1,
                 IF closes THEN Append(chs, ChunkOf(current_chunk)) ELSE chs,
                 Append(current_chunk, sentences[i]),
                 (IF closes THEN 0 ELSE current_length) + sentence_length,
                 chars_per_chunk)

\* The loop over the sentences from sentence i on, and the last chunk.
\* current_length is the sum of the lengths of the sentences of current_chunk.
RECURSIVE ChunkLoop(_, _, _, _, _, _)
ChunkLoop(sentences, i, chs, current_chunk, current_length, chars_per_chunk) ==
    IF i > Len(sentences)
    THEN IF current_chunk # <<>> THEN Append(chs, ChunkOf(current_chunk)) ELSE chs
    ELSE LET sentence_length == Len(sentences[i])
             closes == /\ current_length + sentence_length > chars_per_chunk
                       /\ current_chunk # <<>>
         IN  ChunkLoop(sentences, i + 1,
                 IF closes THEN Append(chs, ChunkOf(current_chunk)) ELSE chs,
                 Append(IF closes THEN <<>> ELSE current_chunk, sentences[i]),
                 (IF closes THEN 0 ELSE current_length) + sentence_length,
                 chars_per_chunk)

\* chunk_text(t, m)
ChunkText(t, m) == ChunkLoop(Sentences(t), 1, <<>>, <<>>, 0, m * CharsPerToken)

\* No request is served and analyze_resume is not running.
NoServer ==
    /\ requirements = [required_skills |-> <<>>]
    /\ processor_globals = ProcessorGlobals
    /\ request = NoRequest
    /\ pc = "off"
    /\ listing = <<>>
    /\ idx = 1
    /\ inputs = <<>>
    /\ candidates = <<>>
    /\ ranked = <<>>
    /\ rank_exc = "none"
    /\ response = NoResponse
    /\ llm = LLMReply("none", NoDoc)
    /\ analysis = NoAnalysis
    /\ NoUpload

InitChunker ==
    /\ NoServer
    /\ NoLimiter
    /\ NoOther
    /\ text \in Texts
    /\ max_tokens \in 0..MaxTokens
    /\ chunks = <<>>
    /\ cpc = "call"

ChunkTextCall ==
    /\ cpc = "call"
    /\ chunks' = ChunkText(text, max_tokens)
    /\ cpc' = "returned"
    /\ UNCHANGED <<text, max_tokens>>
    /\ UNCHANGED <<serverVars, limiterVars, otherVars>>

NextChunker == ChunkTextCall

SpecChunker == InitChunker /\ [][NextChunker]_vars

(***************************************************************************)
(* utils.rate_limit: one decorated function, called sequentially           *)
(***************************************************************************)
MaxQuota == 2
MaxPeriod == 3
MaxInvocations == 4
MaxClock == 6

\* while timestamps and now - timestamps[0] > period: timestamps.pop(0)
RECURSIVE Prune(_, _, _)
Prune(ts, t, p) ==
    IF ts # <<>> /\ t - Head(ts) > p THEN Prune(Tail(ts), t, p) ELSE ts

\* sleep_time = timestamps[0] + period - now
SleepTime(ts, t, p) == Head(ts) + p - t

\* One call of the wrapped function: when its wrapper was entered, when the
\* function started, whether the wrapper slept and, if it did, the oldest
\* timestamp it waited for.
Execution(arrived, start, waited, oldest) ==
    [arrived |-> arrived, start |-> start, waited |-> waited, oldest |-> oldest]

InitLimiter ==
    /\ NoServer
    /\ NoChunker
    /\ NoOther
    /\ calls \in 1..MaxQuota
    /\ period \in 1..MaxPeriod
    /\ timestamps = <<>>
    /\ clock = 0
    /\ lpc = "idle"
    /\ now = 0
    /\ entered = 0
    /\ executions = <<>>

\* Time passes between two calls.
Elapse ==
    /\ lpc = "idle"
    /\ clock < MaxClock
    /\ clock' = clock + 1
    /\ UNCHANGED <<calls, period, timestamps, lpc, now, entered, executions>>
    /\ UNCHANGED <<serverVars, chunkerVars, otherVars>>

\* Variant of WrapperCall: a call that finds the quota exhausted returns
\* without running the function.
WrapperCallRejects ==
    /\ lpc = "idle"
    /\ entered < MaxInvocations
    /\ entered' = entered + 1
    /\ now' = clock
    /\ LET pruned == Prune(timestamps, clock, period)
       IN  IF Len(pruned) >= calls
           THEN /\ timestamps' = pruned
                /\ UNCHANGED executions
           ELSE /\ timestamps' = Append(pruned, clock)
                /\ executions' = Append(executions,
                                        Execution(clock, clock, FALSE, 0))
    /\ UNCHANGED <<calls, period, clock, lpc>>
    /\ UNCHANGED <<serverVars, chunkerVars, otherVars>>

\* wrapper, up to time.sleep: the old timestamps are dropped; with the quota
\* free, or sleep_time <= 0, the call is recorded and the function runs at
\* once.
WrapperCall ==
    /\ lpc = "idle"
    /\ entered < MaxInvocations
    /\ entered' = entered + 1
    /\ now' = clock
    /\ LET pruned == Prune(timestamps, clock, period)
       IN  IF Len(pruned) >= calls /\ SleepTime(pruned, clock, period) > 0
           THEN /\ timestamps' = pruned
                /\ lpc' = "sleeping"
                /\ UNCHANGED executions
           ELSE /\ timestamps' = Append(pruned, clock)
                /\ executions' = Append(executions,
                                        Execution(clock, clock, FALSE, 0))
                /\ UNCHANGED lpc
    /\ UNCHANGED <<calls, period, clock>>
    /\ UNCHANGED <<serverVars, chunkerVars, otherVars>>

\* wrapper, from the return of time.sleep: the time read before the sleep is
\* recorded and the function runs.
WrapperWake ==
    /\ lpc = "sleeping"
    /\ clock' = now + SleepTime(timestamps, now, period)
    /\ timestamps' = Append(timestamps, now)
    /\ executions' = Append(executions,
                            Execution(now, clock', TRUE, Head(timestamps)))
    /\ lpc' = "idle"
    /\ UNCHANGED <<calls, period, now, entered>>
    /\ UNCHANGED <<serverVars, chunkerVars, otherVars>>

NextLimiter ==
    \/ Elapse
    \/ WrapperCall
    \/ WrapperWake

SpecLimiter == InitLimiter /\ [][NextLimiter]_vars

\* time.sleep returns: a sleeping caller goes on.
SpecLimiterFair == SpecLimiter /\ WF_vars(WrapperWake)

(***************************************************************************)
(* Python floats: IEEE 754 binary64, round to nearest, ties to even        *)
(***************************************************************************)
\* Natural numbers of any size: lists of limbs, least significant first,
\* the last limb not 0; <<>> is 0.
LimbBits == 12
LimbBase == 2 ^ LimbBits

\* The bits of the significand of a float.
MantissaBits == 53

\* The bits the quotient of a division is computed to before it is rounded.
QuotientBits == 64

RECURSIVE BigOf(_)
BigOf(k) == IF k = 0 THEN <<>> ELSE <<k % LimbBase>> \o BigOf(k \div LimbBase)

RECURSIVE Trim(_)
Trim(a) ==
    IF a # <<>> /\ a[Len(a)] = 0 THEN Trim(SubSeq(a, 1, Len(a) - 1)) ELSE a

RECURSIVE BAddCarry(_, _, _)
BAddCarry(a, b, c) ==
    IF a = <<>> /\ b = <<>> THEN BigOf(c)
    ELSE LET x == (IF a = <<>> THEN 0 ELSE Head(a))
                    + (IF b = <<>> THEN 0 ELSE Head(b)) + c
         IN  <<x % LimbBase>>
               \o BAddCarry(IF a = <<>> THEN a ELSE Tail(a),
                            IF b = <<>> THEN b ELSE Tail(b), x \div LimbBase)

BAdd(a, b) == BAddCarry(a, b, 0)

RECURSIVE BMulSmallCarry(_, _, _)
BMulSmallCarry(a, k, c) ==
    IF a = <<>> THEN BigOf(c)
    ELSE LET x == Head(a) * k + c
         IN  <<x % LimbBase>> \o BMulSmallCarry(Tail(a), k, x \div LimbBase)

\* a * k for a limb-sized k
BMulSmall(a, k) == Trim(BMulSmallCarry(a, k, 0))

RECURSIVE BMul(_, _)
BMul(a, b) ==
    IF a = <<>> \/ b = <<>> THEN <<>>
    ELSE LET rest == BMul(a, Tail(b))
         IN  BAdd(BMulSmall(a, Head(b)),
                  IF rest = <<>> THEN rest ELSE <<0>> \o rest)

RECURSIVE BitLenSmall(_)
BitLenSmall(k) == IF k = 0 THEN 0 ELSE 1 + BitLenSmall(k \div 2)

\* The number of bits of a.
BitLen(a) ==
    IF a = <<>> THEN 0 ELSE (Len(a) - 1) * LimbBits + BitLenSmall(a[Len(a)])

\* a * 2^s
BShl(a, s) ==
    IF a = <<>> THEN a
    ELSE [i \in 1..(s \div LimbBits) |-> 0] \o BMulSmall(a, 2 ^ (s % LimbBits))

\* a \div 2^s
BShr(a, s) ==
    LET q == s \div LimbBits
        r == s % LimbBits
        b == SubSeq(a, q + 1, Len(a))
    IN  Trim([i \in DOMAIN b |->
                (b[i] \div 2 ^ r)
                  + (IF i < Len(b) THEN (b[i + 1] % 2 ^ r) * 2 ^ (LimbBits - r)
                     ELSE 0)])

\* Bit i of a, bit 0 being the least significant.
BBit(a, i) ==
    IF (i \div LimbBits) + 1 > Len(a) THEN 0
    ELSE (a[(i \div LimbBits) + 1] \div 2 ^ (i % LimbBits)) % 2

\* The s low bits of a are 0.
BLowZero(a, s) == \A i \in 0..(s - 1) : BBit(a, i) = 0

\* a \div k and a % k for a small k, from the most significant limb down.
RECURSIVE BDivSmall(_, _, _, _)
BDivSmall(a, k, i, rem) ==
    IF i = 0 THEN [q |-> <<>>, r |-> rem]
    ELSE LET cur == rem * LimbBase + a[i]
             rest == BDivSmall(a, k, i - 1, cur % k)
         IN  [q |-> Append(rest.q, cur \div k), r |-> rest.r]

\* A float that is not negative: m * 2^e, m of MantissaBits bits, or 0.
FloatZero == [m |-> <<>>, e |-> 0]

\* The float nearest to m * 2^e (+ a little, if sticky), ties to even.
Round(m, e, sticky) ==
    LET len == BitLen(m)
        s == len - MantissaBits
    IN  IF len = 0 THEN FloatZero
        ELSE IF s <= 0 THEN [m |-> BShl(m, 0 - s), e |-> e + s]
        ELSE LET q == BShr(m, s)
                 half == BBit(m, s - 1) = 1
                 low == sticky \/ ~BLowZero(m, s - 1)
                 up == half /\ (low \/ BBit(q, 0) = 1)
                 q2 == IF up THEN BAdd(q, <<1>>) ELSE q
             IN  IF BitLen(q2) > MantissaBits
                 THEN [m |-> BShr(q2, 1), e |-> e + s + 1]
                 ELSE [m |-> q2, e |-> e + s]

\* x * y
FMul(x, y) ==
    IF x.m = <<>> \/ y.m = <<>> THEN FloatZero
    ELSE Round(BMul(x.m, y.m), x.e + y.e, FALSE)

\* x + y
FAdd(x, y) ==
    IF x.m = <<>> THEN y
    ELSE IF y.m = <<>> THEN x
    ELSE LET e == IF x.e < y.e THEN x.e ELSE y.e
         IN  Round(BAdd(BShl(x.m, x.e - e), BShl(y.m, y.e - e)), e, FALSE)

\* a / b for integers a >= 0 and b > 0; also the float a decimal literal of
\* value a / b stands for.
FDiv(a, b) ==
    IF a = 0 THEN FloatZero
    ELSE LET n == BShl(BigOf(a), QuotientBits)
             qr == BDivSmall(n, b, Len(n), 0)
         IN  Round(Trim(qr.q), 0 - QuotientBits, qr.r # 0)

\* float(k) for an integer k >= 0
FInt(k) == FDiv(k, 1)

(***************************************************************************)
(* The two score formulas on their own: one candidate from analyze_resume  *)
(* to the response of screen_resumes                                       *)
(***************************************************************************)
\* The float of a match value of numerator k over MatchDen.
MatchFloat(k) == FDiv(k, MatchDen)

\* processor.py: (skills_score * 0.5 + experience_match * 0.3
\*                + education_match * 0.2) * 100, in floats, for m matching
\* skills of n required and match values e, d (numerators over MatchDen)
AnalysisFloat(m, n, e, d) ==
    LET skills_score == IF n > 0 THEN FDiv(m, n) ELSE FloatZero
    IN  FMul(FAdd(FAdd(FMul(skills_score, FDiv(AnalysisSkillsTenths, 10)),
                       FMul(MatchFloat(e), FDiv(AnalysisExperienceTenths, 10))),
                  FMul(MatchFloat(d), FDiv(AnalysisEducationTenths, 10))),
             FInt(AnalysisPercent))

\* ranking.py: skills_match * 50 + experience_match * 30
\*             + education_match * 20, in floats
RankFloat(m, n, e, d) ==
    LET skills_match == IF n > 0 THEN FDiv(m, n) ELSE FloatZero
    IN  FAdd(FAdd(FMul(skills_match, FInt(RankSkillsWeight)),
                  FMul(MatchFloat(e), FInt(RankExperienceWeight))),
             FMul(MatchFloat(d), FInt(RankEducationWeight)))

InitScores ==
    /\ NoServer
    /\ NoChunker
    /\ NoLimiter
    /\ NoExperience /\ NoThreads /\ NoNormalized
    /\ \E m \in 0..MaxSkillList, n \in 0..MaxRequired,
          e \in 0..(MatchDen + 1), d \in 0..(MatchDen + 1) :
         scoring = [stage |-> "analyze", matching |-> m, required |-> n,
                    experience_match |-> e, education_match |-> d,
                    analysis_score |-> FloatZero, entered |-> FloatZero,
                    overall_score |-> FloatZero, match_score |-> FloatZero]

\* analyze_resume: the score of the parsed reply, or the default scores.
ScoreAnalysis ==
    /\ scoring.stage = "analyze"
    /\ \/ scoring' = [scoring EXCEPT
            !.stage = "rank",
            !.analysis_score = AnalysisFloat(scoring.matching, scoring.required,
                                             scoring.experience_match,
                                             scoring.education_match)]
       \/ scoring' = [scoring EXCEPT
            !.stage = "rank", !.matching = 0, !.experience_match = 0,
            !.education_match = 0, !.analysis_score = FloatZero]
    /\ UNCHANGED <<serverVars, chunkerVars, limiterVars>>
    /\ UNCHANGED <<exp_text, experiences, epc, threads, normalized>>

\* screen_resumes from candidates.append to the response: the candidate takes
\* the overall_score of the analysis, rank_candidates assigns its own, and the
\* response gives it as match_score.
ScoreRanking ==
    /\ scoring.stage = "rank"
    /\ LET score == RankFloat(scoring.matching, scoring.required,
                              scoring.experience_match, scoring.education_match)
       IN  scoring' = [scoring EXCEPT
             !.stage = "ranked", !.entered = scoring.analysis_score,
             !.overall_score = score, !.match_score = score]
    /\ UNCHANGED <<serverVars, chunkerVars, limiterVars>>
    /\ UNCHANGED <<exp_text, experiences, epc, threads, normalized>>

NextScores ==
    \/ ScoreAnalysis
    \/ ScoreRanking

SpecScores == InitScores /\ [][NextScores]_vars

(***************************************************************************)
(* ResumeProcessor._extract_experience                                     *)
(***************************************************************************)
MaxExperienceLen == 8

\* The characters of an experience section: two letters and the line break.
ExperienceAlphabet == {"a", "b", "\n"}

ExperienceTexts == SeqsUpTo(ExperienceAlphabet, MaxExperienceLen)

\* The place of the first line break of t at or after place i, 0 if none.
FindNewline(t, i) ==
    LET at == {j \in i..Len(t) : t[j] = "\n"}
    IN  IF at = {} THEN 0 ELSE CHOOSE j \in at : \A k \in at : j <= k

\* (?P<description>.*?)(?=\n\n|\Z): the first place k at or after i where
\* either the text ends or two line breaks follow.
RECURSIVE DescriptionEnd(_, _)
DescriptionEnd(t, k) ==
    IF k > Len(t) THEN k
    ELSE IF k < Len(t) /\ t[k] = "\n" /\ t[k + 1] = "\n" THEN k
    ELSE DescriptionEnd(t, k + 1)

\* re.finditer of the job entry pattern with re.DOTALL, from place pos of t:
\* every group is lazy, so title, company and period end at the next three
\* line breaks, and the search goes on where the description ended.
RECURSIVE JobEntries(_, _)
JobEntries(t, pos) ==
    LET i1 == FindNewline(t, pos)
        i2 == IF i1 = 0 THEN 0 ELSE FindNewline(t, i1 + 1)
        i3 == IF i2 = 0 THEN 0 ELSE FindNewline(t, i2 + 1)
        k == DescriptionEnd(t, i3 + 1)
    IN  IF i3 = 0 THEN <<>>
        ELSE <<[title |-> SubSeq(t, pos, i1 - 1),
                company |-> SubSeq(t, i1 + 1, i2 - 1),
                period |-> SubSeq(t, i2 + 1, i3 - 1),
                description |-> SubSeq(t, i3 + 1, k - 1)]>>
             \o JobEntries(t, k)

\* _extract_experience(text)
ExtractExperience(t) ==
    LET job_entries == JobEntries(t, 1)
    IN  [i \in DOMAIN job_entries |->
           [title |-> Strip(job_entries[i].title),
            company |-> Strip(job_entries[i].company),
            period |-> Strip(job_entries[i].period),
            description |-> Strip(job_entries[i].description)]]

InitExperience ==
    /\ NoServer
    /\ NoChunker
    /\ NoLimiter
    /\ NoScoring /\ NoThreads /\ NoNormalized
    /\ exp_text \in ExperienceTexts
    /\ experiences = <<>>
    /\ epc = "call"

ExtractExperienceCall ==
    /\ epc = "call"
    /\ experiences' = ExtractExperience(exp_text)
    /\ epc' = "done"
    /\ UNCHANGED <<serverVars, chunkerVars, limiterVars>>
    /\ UNCHANGED <<exp_text, scoring, threads, normalized>>

NextExperience == ExtractExperienceCall

SpecExperience == InitExperience /\ [][NextExperience]_vars

(***************************************************************************)
(* rate_limit: several threads inside the same wrapper                     *)
(*                                                                         *)
(* The threads share timestamps.  The interpreter may switch threads after *)
(* every call the wrapper makes (time.time, pop, len, time.sleep, append)  *)
(* and on the backward jump of the while loop; an action is the code       *)
(* between two such points.                                                *)
(***************************************************************************)
MaxThreads == 2

\* The calls the threads make in all, and the last instant of the clock.
MaxThreadCalls == 3
MaxThreadClock == 3

\* A thread outside wrapper.
IdleThread == [pc |-> "idle", now |-> 0, n |-> 0, wake |-> 0, oldest |-> 0,
               waited |-> FALSE, exc |-> "none"]

InitThreads ==
    /\ NoServer
    /\ NoChunker
    /\ NoScoring /\ NoExperience /\ NoNormalized
    /\ calls \in 1..MaxQuota
    /\ period \in 1..MaxPeriod
    /\ timestamps = <<>>
    /\ clock = 0
    /\ lpc = "threads"
    /\ now = 0
    /\ entered = 0
    /\ executions = <<>>
    /\ threads = [t \in 1..MaxThreads |-> IdleThread]

\* Time passes.
ThreadsElapse ==
    /\ threads # <<>>
    /\ clock < MaxThreadClock
    /\ clock' = clock + 1
    /\ UNCHANGED <<calls, period, timestamps, lpc, now, entered, executions>>
    /\ UNCHANGED <<serverVars, chunkerVars>>
    /\ UNCHANGED <<scoring, exp_text, experiences, epc, threads, normalized>>

\* A thread calls the wrapped function: now = time.time()
ThreadCall ==
    \E t \in DOMAIN threads :
        /\ threads[t].pc = "idle"
        /\ entered < MaxThreadCalls
        /\ entered' = entered + 1
        /\ threads' = [threads EXCEPT ![t] =
                         [IdleThread EXCEPT !.pc = "prune", !.now = clock]]
        /\ UNCHANGED <<calls, period, timestamps, clock, lpc, now, executions>>
        /\ UNCHANGED <<serverVars, chunkerVars>>
        /\ UNCHANGED <<scoring, exp_text, experiences, epc, normalized>>

\* One turn of the while loop: the test and timestamps.pop(0); when the test
\* fails, len(timestamps) of line 20.
ThreadPrune ==
    \E t \in DOMAIN threads :
        /\ threads[t].pc = "prune"
        /\ IF timestamps # <<>> /\ threads[t].now - Head(timestamps) > period
           THEN /\ timestamps' = Tail(timestamps)
                /\ UNCHANGED threads
           ELSE /\ threads' = [threads EXCEPT ![t].pc = "check",
                                              ![t].n = Len(timestamps)]
                /\ UNCHANGED timestamps
        /\ UNCHANGED <<calls, period, clock, lpc, now, entered, executions>>
        /\ UNCHANGED <<serverVars, chunkerVars>>
        /\ UNCHANGED <<scoring, exp_text, experiences, epc, normalized>>

\* From the return of len(timestamps) to time.sleep or timestamps.append:
\* timestamps[0] raises IndexError on a list another thread has emptied.
ThreadCheck ==
    \E t \in DOMAIN threads :
        /\ threads[t].pc = "check"
        /\ threads' = [threads EXCEPT ![t] =
             IF threads[t].n >= calls
             THEN IF timestamps = <<>>
                  THEN [@ EXCEPT !.pc = "raised", !.exc = "IndexError"]
                  ELSE IF SleepTime(timestamps, threads[t].now, period) > 0
                       THEN [@ EXCEPT
                               !.pc = "sleep",
                               !.wake = clock + SleepTime(timestamps,
                                                          threads[t].now, period),
                               !.oldest = Head(timestamps),
                               !.waited = TRUE]
                       ELSE [@ EXCEPT !.pc = "append"]
             ELSE [@ EXCEPT !.pc = "append"]]
        /\ UNCHANGED <<calls, period, timestamps, clock, lpc, now, entered,
                       executions>>
        /\ UNCHANGED <<serverVars, chunkerVars>>
        /\ UNCHANGED <<scoring, exp_text, experiences, epc, normalized>>

\* time.sleep(sleep_time) returns.
ThreadWake ==
    \E t \in DOMAIN threads :
        /\ threads[t].pc = "sleep"
        /\ clock >= threads[t].wake
        /\ threads' = [threads EXCEPT ![t].pc = "append"]
        /\ UNCHANGED <<calls, period, timestamps, clock, lpc, now, entered,
                       executions>>
        /\ UNCHANGED <<serverVars, chunkerVars>>
        /\ UNCHANGED <<scoring, exp_text, experiences, epc, normalized>>

\* timestamps.append(now)
ThreadAppend ==
    \E t \in DOMAIN threads :
        /\ threads[t].pc = "append"
        /\ timestamps' = Append(timestamps, threads[t].now)
        /\ threads' = [threads EXCEPT ![t].pc = "run"]
        /\ UNCHANGED <<calls, period, clock, lpc, now, entered, executions>>
        /\ UNCHANGED <<serverVars, chunkerVars>>
        /\ UNCHANGED <<scoring, exp_text, experiences, epc, normalized>>

\* return func(*args, **kwargs): the function starts; the thread is then
\* outside wrapper again.
ThreadRun ==
    \E t \in DOMAIN threads :
        /\ threads[t].pc = "run"
        /\ executions' = Append(executions,
                                Execution(threads[t].now, clock,
                                          threads[t].waited, threads[t].oldest))
        /\ threads' = [threads EXCEPT ![t] = IdleThread]
        /\ UNCHANGED <<calls, period, timestamps, clock, lpc, now, entered>>
        /\ UNCHANGED <<serverVars, chunkerVars>>
        /\ UNCHANGED <<scoring, exp_text, experiences, epc, normalized>>

NextThreads ==
    \/ ThreadsElapse
    \/ ThreadCall
    \/ ThreadPrune
    \/ ThreadCheck
    \/ ThreadWake
    \/ ThreadAppend
    \/ ThreadRun

SpecThreads == InitThreads /\ [][NextThreads]_vars

(***************************************************************************)
(* RankingEngine.calculate_match_score and _normalize_scores               *)
(***************************************************************************)
\* The float json.loads reads the literal NaN as.
JNaN == [t |-> "nan", n |-> 0, l |-> <<>>, len |-> 0]

\* The replies of the LLM to RankingEngine.calculate_match_score: those of the
\* analysis, and objects with NaN as a match value.
NormalizeReplies ==
    LLMReplies
      \cup {LLMReply("json", Doc("object", Fields, ms, JList(<<>>), em, dm)) :
              ms \in SkillListValues,
              em \in {JNaN, JNum(1)}, dm \in {JNaN, JNum(MatchDen)}}

\* The dict RankingEngine._get_default_scores returns.
RankingDefault(req) ==
    [matching_skills |-> <<>>, missing_skills |-> req.required_skills,
     experience_match |-> JNum(0), education_match |-> JNum(0)]

\* [s.lower() for s in requirements['required_skills']]
LowerList(l) == [i \in DOMAIN l |-> Lower(l[i])]

\* The exception iterating v and lowering its elements raises, or "none":
\* None and numbers cannot be iterated; the characters of a string and the
\* keys of an object are strings.
IterExc(v) == IF v.t \in {"list", "str", "numstr", "dict"} THEN "none" ELSE "TypeError"

\* [skill.lower() for skill in v if skill.lower() in <lowered required>]
MatchingOf(v, req) ==
    IF v.t = "list"
    THEN SelectSeq(LowerList(v.l), LAMBDA s : s \in LowerSet(req.required_skills))
    ELSE <<>>

\* float(v): NaN is a float.
NormFloatExc(v) == IF v.t = "nan" THEN "none" ELSE FloatExc(v)

\* min(max(float(v), 0), 1): max(x, 0) is x unless 0 > x, and min(x, 1) is x
\* unless 1 < x; every comparison with NaN is false, so NaN stays.
ClampUnit(v) ==
    IF v.t = "nan" THEN JNaN
    ELSE JNum(IF v.n < 0 THEN 0 ELSE IF v.n > MatchDen THEN MatchDen ELSE v.n)

\* _normalize_scores(result, requirements): only json.JSONDecodeError is
\* caught there, which nothing in the body raises.
NormalizeScores(d, req) ==
    LET ms == DocGet(d, "matching_skills", JList(<<>>))
        em == DocGet(d, "experience_match", JNum(0))
        dm == DocGet(d, "education_match", JNum(0))
        matching == MatchingOf(ms, req)
        required_skills == LowerList(req.required_skills)
    IN  IF d.t # "object" THEN Raise("AttributeError")
        ELSE IF IterExc(ms) # "none" THEN Raise(IterExc(ms))
        ELSE IF NormFloatExc(em) # "none" THEN Raise(NormFloatExc(em))
        ELSE IF NormFloatExc(dm) # "none" THEN Raise(NormFloatExc(dm))
        ELSE Return([matching_skills |-> matching,
                     missing_skills |->
                       SelectSeq(required_skills,
                                 LAMBDA s : s \notin LowerSet(matching)),
                     experience_match |-> ClampUnit(em),
                     education_match |-> ClampUnit(dm)])

\* RankingEngine.calculate_match_score: [exc, val, caught: the exception its
\* `except Exception` caught, or "none"].
RankingMatchScore(o, req) ==
    LET r == IF o.kind = "json" THEN NormalizeScores(o.doc, req)
             ELSE Raise(IF o.kind = "not_json" THEN "JSONDecodeError"
                        ELSE IF o.kind = "no_content" THEN "AttributeError"
                        ELSE "APIError")
    IN  IF r.exc # "none"
        THEN [exc |-> "none", val |-> RankingDefault(req), caught |-> r.exc]
        ELSE [exc |-> "none", val |-> r.val, caught |-> "none"]

InitNormalize ==
    /\ NoServer
    /\ NoChunker
    /\ NoLimiter
    /\ NoScoring /\ NoExperience /\ NoThreads
    /\ \E req \in Requirements, o \in NormalizeReplies :
         normalized = [exc |-> "pending", requirements |-> req, reply |-> o,
                       val |-> <<>>, caught |-> "none"]

CalculateMatchScoreCall ==
    /\ normalized.exc = "pending"
    /\ LET r == RankingMatchScore(normalized.reply, normalized.requirements)
       IN  normalized' = [normalized EXCEPT !.exc = r.exc, !.val = r.val,
                                            !.caught = r.caught]
    /\ UNCHANGED <<serverVars, chunkerVars, limiterVars>>
    /\ UNCHANGED <<scoring, exp_text, experiences, epc, threads>>

NextNormalize == CalculateMatchScoreCall

SpecNormalize == InitNormalize /\ [][NextNormalize]_vars

(***************************************************************************)
(* Properties                                                              *)
(***************************************************************************)
BatchDone == pc = "done" /\ request.endpoint = "screen_resumes"

SingleDone == pc = "done" /\ request.endpoint = "screen_resume"

\* C1: every candidate a batch returns has set(missing_skills) =
\* set(required_skills) - set(matching_skills), compared without case,
\* whatever lists the LLM returned.
C1_MissingIsRequiredMinusMatching ==
    (BatchDone /\ response.status = 200) =>
      \A i \in DOMAIN response.body :
        LowerSet(response.body[i].missing_skills.l)
          = LowerSet(requirements.required_skills)
              \ LowerSet(response.body[i].matching_skills.l)

\* The default result, field by field.
IsDefaultResult(v, req) ==
    /\ v.matching_skills = JList(<<>>)
    /\ v.missing_skills.t = "list"
    /\ v.missing_skills.l = req.required_skills
    /\ v.experience_match = JNum(0)
    /\ v.education_match = JNum(0)
    /\ v.overall_score = 0
    /\ v.reasoning = "Failed to analyze resume"

\* The reply is a JSON object that has the five keys.
HasFiveKeys(o) == o.kind = "json" /\ o.doc.t = "object" /\ Fields \subseteq o.doc.keys

\* A successful result: the fields of the LLM's object, as it gave them.
IsSuccessResult(v, o) ==
    /\ HasFiveKeys(o)
    /\ v.matching_skills = o.doc.matching_skills
    /\ v.missing_skills = o.doc.missing_skills
    /\ v.experience_match = o.doc.experience_match
    /\ v.education_match = o.doc.education_match
    /\ v.reasoning = "llm"

\* C2: analyze_resume never raises: on every reply of the LLM it returns a
\* successful result or exactly the default result, and it returns the
\* default result when the call fails, the content is no JSON object, a key
\* is missing or a match value is no number.
C2_AnalyzeNeverRaises ==
    pc = "analyzed" =>
      /\ analysis.exc = "none"
      /\ \/ IsDefaultResult(analysis.val, requirements)
         \/ IsSuccessResult(analysis.val, llm)
      /\ (~HasFiveKeys(llm) \/ ~IsNumber(llm.doc.experience_match)
            \/ ~IsNumber(llm.doc.education_match))
           => IsDefaultResult(analysis.val, requirements)

\* C2 witness: an object with the five keys whose experience_match is null
\* was answered with the default result.
C2_Witness ==
    /\ pc = "analyzed"
    /\ HasFiveKeys(llm)
    /\ llm.doc.experience_match = JNull
    /\ llm.doc.matching_skills = MatchedOne
    /\ analysis.exc = "none"
    /\ IsDefaultResult(analysis.val, requirements)

\* A reply that is a well-formed analysis: the five keys, two lists, two
\* numbers.
WellFormedReply(o) ==
    /\ HasFiveKeys(o)
    /\ o.doc.matching_skills.t = "list"
    /\ o.doc.missing_skills.t = "list"
    /\ o.doc.experience_match.t = "num"
    /\ o.doc.education_match.t = "num"

\* C3: a batch fails as a whole only when no resume was processed
\* successfully: with one resume downloaded, read and analysed into a
\* well-formed result, the response is the ranked candidates.
C3_BatchFailsOnlyWithoutCandidates ==
    (BatchDone /\ response.status # 200) =>
      ~\E i \in DOMAIN inputs :
          inputs[i].kind = "analyzed" /\ WellFormedReply(inputs[i].reply)

\* C4: rank_candidates never raises on the candidates of a batch, and returns
\* an empty list for an empty one.
C4_RankNeverFails ==
    /\ rank_exc = "none"
    /\ (BatchDone /\ candidates = <<>>) => ranked = <<>>

IsWeightedScore(score, m, n, e, d) ==
    IF n = 0
    THEN score * MatchDen = ScoreDen * (30 * e + 20 * d)
    ELSE score * MatchDen * n = ScoreDen * (50 * m * MatchDen + (30 * e + 20 * d) * n)

\* C6: after rank_candidates every candidate's overall_score is
\* (|matching| / |required|) * 50 + experience * 30 + education * 20; with two
\* required skills, A matching one and B both, both match values 1, the
\* scores are 75 and 100 and the order is [B, A].
C6_RankScores ==
    (BatchDone /\ rank_exc = "none") =>
      /\ \A i \in DOMAIN ranked :
           IsWeightedScore(ranked[i].overall_score, ranked[i].matching_skills.len,
                           Len(requirements.required_skills),
                           ranked[i].experience_match.n,
                           ranked[i].education_match.n)
      /\ (/\ Len(requirements.required_skills) = 2
          /\ Len(candidates) = 2
          /\ candidates[1].matching_skills.len = 1
          /\ candidates[2].matching_skills.len = 2
          /\ \A i \in 1..2 : /\ candidates[i].experience_match = JNum(MatchDen)
                             /\ candidates[i].education_match = JNum(MatchDen))
           => /\ candidates[1].overall_score = 75 * ScoreDen
              /\ candidates[2].overall_score = 100 * ScoreDen
              /\ ranked[1].name = candidates[2].name
              /\ ranked[2].name = candidates[1].name

\* C6 witness: the scenario of the two candidates A and B.
C6_Witness ==
    /\ BatchDone
    /\ rank_exc = "none"
    /\ requirements.required_skills = RequiredSkills(2)
    /\ Len(candidates) = 2
    /\ candidates[1].matching_skills = MatchedOne
    /\ candidates[2].matching_skills = MatchedTwo
    /\ \A i \in 1..2 : /\ candidates[i].experience_match = JNum(MatchDen)
                       /\ candidates[i].education_match = JNum(MatchDen)
    /\ ranked[1].name = 2
    /\ ranked[1].overall_score = 100 * ScoreDen
    /\ ranked[2].overall_score = 75 * ScoreDen

\* C7: on its success path analyze_resume returns overall_score =
\* (skills_score * 0.5 + experience * 0.3 + education * 0.2) * 100, with
\* skills_score = |matching| / |required|, and 0 without required skills.
C7_AnalysisScore ==
    (pc = "analyzed" /\ analysis.exc = "none" /\ analysis.val.reasoning = "llm") =>
      IsWeightedScore(analysis.val.overall_score,
                      analysis.val.matching_skills.len,
                      Len(requirements.required_skills),
                      analysis.val.experience_match.n,
                      analysis.val.education_match.n)

\* C7 witness: a successful analysis for a job without required skills, the
\* LLM listing two matching skills.
C7_Witness ==
    /\ pc = "analyzed"
    /\ analysis.exc = "none"
    /\ analysis.val.reasoning = "llm"
    /\ requirements.required_skills = <<>>
    /\ analysis.val.matching_skills = MatchedTwo
    /\ analysis.val.experience_match = JNum(MatchDen)
    /\ analysis.val.education_match = JNum(1)
    /\ analysis.val.overall_score * MatchDen = ScoreDen * (30 * MatchDen + 20)

\* v is a number in [0, 1]
InUnitRange(v) == IsNumber(v) /\ 0 <= v.n /\ v.n <= MatchDen

\* C8: for every reply that has the five keys, the result of analyze_resume
\* has experience_match and education_match in [0, 1] and overall_score in
\* [0, 100].
C8_ResultInRange ==
    (pc = "analyzed" /\ HasFiveKeys(llm)) =>
      /\ analysis.exc = "none"
      /\ InUnitRange(analysis.val.experience_match)
      /\ InUnitRange(analysis.val.education_match)
      /\ 0 <= analysis.val.overall_score
      /\ analysis.val.overall_score <= 100 * ScoreDen

\* A single-resume request whose upload, requirements file and text
\* extraction are in order, and which has at least one chunk.
SingleRequestInOrder ==
    /\ SingleDone
    /\ request.content_type = "application/pdf"
    /\ request.requirements_json = "valid"
    /\ request.load = "ok"
    /\ inputs # <<>>

\* C9: when the LLM calls of a single-resume request fail, the request
\* succeeds and answers the default scores: match_score 0, no matching
\* skill, every required skill missing, both match values 0.
C9_SingleResumeDefaultOnLLMFailure ==
    (SingleRequestInOrder
       /\ \A i \in DOMAIN inputs : inputs[i].reply.kind = "timeout") =>
      /\ response.status = 200
      /\ response.body[1].match_score = 0
      /\ response.body[1].matching_skills.l = <<>>
      /\ response.body[1].missing_skills.l = requirements.required_skills
      /\ response.body[1].experience_match = 0
      /\ response.body[1].education_match = 0

\* C10: the match_score of a completed single-resume request is the weighted
\* composite of the returned fields; a resume matching every required skill
\* with both match values 1 gets match_score 100.
C10_SingleResumeMatchScore ==
    /\ (SingleDone /\ response.status = 200) =>
         IsWeightedScore(response.body[1].match_score,
                         response.body[1].matching_skills.len,
                         Len(requirements.required_skills),
                         response.body[1].experience_match,
                         response.body[1].education_match)
    /\ (SingleRequestInOrder
          /\ requirements.required_skills # <<>>
          /\ \A i \in DOMAIN inputs :
               /\ inputs[i].reply.kind = "json"
               /\ inputs[i].reply.doc.matching_skills
                    = JList(requirements.required_skills)
               /\ inputs[i].reply.doc.experience_match = JNum(MatchDen)
               /\ inputs[i].reply.doc.education_match = JNum(MatchDen)) =>
         /\ response.status = 200
         /\ response.body[1].match_score = 100 * ScoreDen


\* C11: a batch answered with status 200 returns exactly one candidate for
\* each listed resume that was downloaded, read and analysed, and none for a
\* resume whose download or text extraction failed.
C11_OneCandidatePerProcessedResume ==
    (BatchDone /\ response.status = 200) =>
        /\ Len(inputs) = Len(listing)
        /\ \A i \in DOMAIN listing :
             Cardinality({k \in DOMAIN response.body :
                            response.body[k].name = listing[i]})
               = IF inputs[i].kind = "analyzed" THEN 1 ELSE 0
        /\ Len(response.body)
             = Cardinality({i \in DOMAIN inputs : inputs[i].kind = "analyzed"})

\* A batch of several resumes, one of them with a failed download, answered
\* with the candidates of the others.
C11_Witness ==
    /\ BatchDone
    /\ response.status = 200
    /\ Len(listing) = MaxResumes
    /\ Cardinality({i \in DOMAIN inputs : inputs[i].kind = "download_error"}) = 1
    /\ Len(response.body) = MaxResumes - 1

\* C12: every chunk chunk_text returns is at most max_tokens * 4 characters
\* long, unless it consists of exactly one sentence.
C12_ChunkWithinBudget ==
    cpc = "returned" =>
        \A i \in DOMAIN chunks :
            \/ Len(chunks[i]) <= max_tokens * CharsPerToken
            \/ Len(Sentences(chunks[i])) = 1

\* The sentences of the chunks chs, in chunk order.
RECURSIVE ChunkSentences(_)
ChunkSentences(chs) ==
    IF chs = <<>> THEN <<>> ELSE Sentences(Head(chs)) \o ChunkSentences(Tail(chs))

\* C13: the sentences of the chunks, in chunk order, are the sentences of the
\* text (its fragments between full stops, stripped, the empty ones dropped),
\* and every chunk is its sentences joined with ". " and ended with ".".
C13_ChunksPartitionSentences ==
    cpc = "returned" =>
        /\ ChunkSentences(chunks) = Sentences(text)
        /\ \A i \in DOMAIN chunks : chunks[i] = ChunkOf(Sentences(chunks[i]))

\* A text whose sentences fill two chunks, the first one of two different
\* sentences.
C13_Witness ==
    /\ cpc = "returned"
    /\ Len(chunks) = 2
    /\ Len(Sentences(chunks[1])) = 2
    /\ Sentences(chunks[1])[1] # Sentences(chunks[1])[2]

\* A single-resume request whose upload, requirements file and text
\* extraction are in order, whatever the number of chunks of its text.
SingleRequestAccepted ==
    /\ SingleDone
    /\ request.content_type = "application/pdf"
    /\ request.requirements_json = "valid"
    /\ request.load = "ok"

\* The replies the LLM gave on the chunks of the request, in chunk order.
ChunkOutcomes == [i \in DOMAIN inputs |-> inputs[i].reply]

\* chunk_text returns no chunk for a text without a sentence, and never an
\* empty chunk.
NoSentenceNoChunk ==
    cpc = "returned" =>
        /\ Sentences(text) = <<>> => chunks = <<>>
        /\ \A i \in DOMAIN chunks : chunks[i] # <<>>

\* C14: for a resume text without a sentence calculate_match_score calls the
\* LLM on no chunk and returns matching_skills = [], missing_skills = the
\* required skills, experience_match = education_match = 0.
C14_EmptyTextAggregate ==
    (SingleRequestAccepted /\ inputs = <<>>) =>
        LET r == CalculateMatchScore(processor_globals, requirements, <<>>)
        IN  /\ r.exc = "none"
            /\ r.val.matching_skills = {}
            /\ r.val.missing_skills
                 = {requirements.required_skills[i] :
                      i \in DOMAIN requirements.required_skills}
            /\ r.val.experience_match = 0
            /\ r.val.education_match = 0

\* The processing of the chunk the LLM answers with o fails: the call or
\* json.loads raises, the result is no object, its matching_skills cannot be
\* iterated or a match value cannot be read as a number.
ChunkFails(o) ==
    \/ o.kind # "json"
    \/ o.doc.t # "object"
    \/ ~HasLen(DocGet(o.doc, "matching_skills", JList(<<>>)))
    \/ FloatExc(DocGet(o.doc, "experience_match", JNum(0))) # "none"
    \/ FloatExc(DocGet(o.doc, "education_match", JNum(0))) # "none"

\* The greatest element of a non-empty set of numbers.
SetMax(S) == CHOOSE x \in S : \A y \in S : y <= x

\* C15: when every chunk is processed successfully, calculate_match_score
\* returns the union of the chunks' matching_skills and the maxima of their
\* experience_match and education_match values.
C15_AggregateOfChunks ==
    (SingleRequestInOrder
       /\ \A i \in DOMAIN inputs : ~ChunkFails(inputs[i].reply)) =>
        LET r == CalculateMatchScore(processor_globals, requirements,
                                     ChunkOutcomes)
            docs == {ChunkOutcomes[i].doc : i \in DOMAIN ChunkOutcomes}
        IN  /\ r.exc = "none"
            /\ r.val.matching_skills
                 = UNION {Elements(d.matching_skills) : d \in docs}
            /\ r.val.experience_match
                 = SetMax({d.experience_match.n : d \in docs})
            /\ r.val.education_match
                 = SetMax({d.education_match.n : d \in docs})

\* C16: calculate_match_score returns the same sets of matching and missing
\* skills and the same experience_match and education_match for every order
\* of the same per-chunk outcomes, failed chunks included.
C16_AggregateOrderIndependent ==
    SingleRequestInOrder =>
        \A p \in Permutations(DOMAIN inputs) :
            LET r == CalculateMatchScore(processor_globals, requirements,
                                         ChunkOutcomes)
                q == CalculateMatchScore(processor_globals, requirements,
                       [i \in DOMAIN inputs |-> ChunkOutcomes[p[i]]])
            IN  /\ r.exc = "none"
                /\ q.exc = "none"
                /\ q.val = r.val

\* The place of the candidate called name in the list cands.
PlaceOf(cands, name) == CHOOSE k \in DOMAIN cands : cands[k].name = name

\* C17: two candidates with the same sort key (overall_score, number of
\* matching skills, number of missing skills) are ranked in the order they
\* have in the list passed to rank_candidates.
C17_RankStable ==
    (BatchDone /\ ranked # <<>>) =>
        \A i, j \in DOMAIN candidates :
            (i < j /\ SortKey(candidates[i]) = SortKey(candidates[j])) =>
                PlaceOf(ranked, candidates[i].name)
                  < PlaceOf(ranked, candidates[j].name)

\* Two candidates of equal keys were ranked and kept their order.
C17_Witness ==
    /\ BatchDone
    /\ Len(ranked) = MaxResumes
    /\ \E i, j \in DOMAIN candidates :
         /\ i < j
         /\ SortKey(candidates[i]) = SortKey(candidates[j])
         /\ PlaceOf(ranked, candidates[i].name) < PlaceOf(ranked, candidates[j].name)

\* C18: rank_candidates applied, with the same requirements, to a list it
\* returned gives that list again: the same order and the same overall_score
\* of every candidate.
C18_RankIdempotent ==
    (BatchDone /\ ranked # <<>>) =>
        LET again == RankCandidates(ranked, requirements)
        IN  /\ again.exc = "none"
            /\ again.val = ranked
            /\ \A k \in DOMAIN ranked :
                 /\ again.val[k].name = ranked[k].name
                 /\ again.val[k].overall_score = ranked[k].overall_score

\* rank_candidates returned several candidates in another order than the one
\* it was given.
C18_Witness ==
    /\ BatchDone
    /\ Len(ranked) = MaxResumes
    /\ ranked # candidates

\* C19: in every window of length period the wrapped function starts at most
\* `calls` times: of any calls + 1 executions in a row, the last starts at
\* least period after the first.
C19_QuotaPerWindow ==
    \A i \in DOMAIN executions :
        (i + calls) \in DOMAIN executions =>
            executions[i + calls].start - executions[i].start >= period

\* No call of wrapper is rejected or dropped, and a call that had to wait ran
\* when the oldest recorded call left the window.
EveryCallRunsOnce ==
    /\ entered = Len(executions) + (IF lpc = "sleeping" THEN 1 ELSE 0)
    /\ \A i \in DOMAIN executions :
         IF executions[i].waited
         THEN /\ executions[i].start = executions[i].oldest + period
              /\ executions[i].start > executions[i].arrived
         ELSE executions[i].start = executions[i].arrived

\* C20: a call that finds the quota exhausted is not rejected or dropped: it
\* blocks until the oldest recorded call leaves the window, then the function
\* runs exactly once; every call of wrapper leads to its execution.
C20_BlockedCallRuns ==
    /\ []EveryCallRunsOnce
    /\ \A k \in 1..MaxInvocations : (entered = k) ~> (Len(executions) >= k)

\* A call found the quota exhausted, slept and ran.
C20_Witness ==
    /\ lpc = "idle"
    /\ \E i \in DOMAIN executions :
         /\ executions[i].waited
         /\ executions[i].start = executions[i].oldest + period

UploadDone == pc = "done" /\ request.endpoint = "upload_resume"

\* C21: upload_resume reads an uploaded .pdf, .docx or .doc document and
\* answers status "processed" with the extracted skills; it answers with the
\* unsupported-format error only for a document of another extension.
C21_UploadAcceptsDocuments ==
    UploadDone =>
        /\ (upload.extension \in SupportedExtensions /\ request.load = "ok") =>
             /\ response.status = 200
             /\ response.body[1].status = "processed"
        /\ (response.status = 400
              /\ response.body[1].detail = "Unsupported file format") =>
             upload.extension \notin SupportedExtensions

\* C22: in the chunk path missing_skills is the required skills that no chunk
\* reports as matching, compared without regard to case, so that no skill is,
\* up to case, both matching and missing.
C22_ChunkMissingCaseInsensitive ==
    SingleRequestInOrder =>
        LET r == CalculateMatchScore(processor_globals, requirements,
                                     ChunkOutcomes)
            required == {requirements.required_skills[i] :
                           i \in DOMAIN requirements.required_skills}
        IN  /\ r.exc = "none"
            /\ r.val.missing_skills
                 = {s \in required :
                      Lower(s) \notin {Lower(m) : m \in r.val.matching_skills}}
            /\ {Lower(m) : m \in r.val.matching_skills}
                 \cap {Lower(x) : x \in r.val.missing_skills} = {}

\* C23: calculate_match_score does not raise, and a chunk whose processing
\* fails contributes nothing: the aggregate is the aggregate of the other
\* chunks.
C23_FailedChunkSkipped ==
    SingleRequestInOrder =>
        LET r == CalculateMatchScore(processor_globals, requirements,
                                     ChunkOutcomes)
            others == CalculateMatchScore(processor_globals, requirements,
                        SelectSeq(ChunkOutcomes, LAMBDA o : ~ChunkFails(o)))
        IN  /\ r.exc = "none"
            /\ r.val = others.val

\* C24: a candidate that enters rank_candidates with an overall_score leaves
\* it with that overall_score.
C24_RankKeepsOverallScore ==
    scoring.stage = "ranked" => scoring.overall_score = scoring.entered

\* C25: the overall_score rank_candidates computes is the overall_score
\* analyze_resume computed, so that the match_score of the batch response is
\* the score of the analysis.
C25_ScoreFormulasAgree ==
    scoring.stage = "ranked" =>
        /\ RankFloat(scoring.matching, scoring.required,
                     scoring.experience_match, scoring.education_match)
             = scoring.analysis_score
        /\ scoring.match_score = scoring.analysis_score

\* text.split('\n'): the lines of t from character i on, after the line cur
\* under way.
RECURSIVE SplitLines(_, _, _)
SplitLines(t, i, cur) ==
    IF i > Len(t) THEN <<cur>>
    ELSE IF t[i] = "\n" THEN <<cur>> \o SplitLines(t, i + 1, <<>>)
    ELSE SplitLines(t, i + 1, Append(cur, t[i]))

\* The blocks of a sequence of lines: the maximal runs of consecutive
\* non-blank lines, cur being the run under way.
RECURSIVE LineBlocks(_, _)
LineBlocks(lines, cur) ==
    IF lines = <<>> THEN (IF cur = <<>> THEN <<>> ELSE <<cur>>)
    ELSE IF Head(lines) = <<>>
         THEN (IF cur = <<>> THEN <<>> ELSE <<cur>>) \o LineBlocks(Tail(lines), <<>>)
    ELSE LineBlocks(Tail(lines), Append(cur, Head(lines)))

ExperienceBlocks == LineBlocks(SplitLines(exp_text, 1, <<>>), <<>>)

\* C26: the entries are those of the blocks of four non-blank lines, in order,
\* each with the block's lines as title, company, period and description;
\* the other blocks give no entry (texts with a block of more than four lines
\* left aside).
C26_ExperienceEntryPerBlock ==
    (/\ epc = "done"
     /\ \A i \in DOMAIN ExperienceBlocks : Len(ExperienceBlocks[i]) <= 4) =>
        LET shaped == SelectSeq(ExperienceBlocks, LAMBDA b : Len(b) = 4)
        IN  experiences =
              [i \in DOMAIN shaped |->
                 [title |-> shaped[i][1], company |-> shaped[i][2],
                  period |-> shaped[i][3], description |-> shaped[i][4]]]

\* The limiter code raised in no thread.
NoThreadRaised == \A t \in DOMAIN threads : threads[t].exc = "none"

\* C27: with several threads inside the same wrapper the limiter code raises
\* in none of them, and of any calls + 1 executions in a row the last starts
\* at least period after the first.
C27_ThreadsKeepQuota ==
    threads # <<>> =>
        /\ NoThreadRaised
        /\ \A i \in DOMAIN executions :
             (i + calls) \in DOMAIN executions =>
                 executions[i + calls].start - executions[i].start >= period

\* Candidate c2 is candidate c with, at most, other values under the keys
\* overall_score and skills_match.
OnlyScoresSet(c, c2) ==
    c2 = [c EXCEPT !.overall_score = c2.overall_score,
                   !.skills_match = c2.skills_match]

\* rank_candidates is called on a list of candidates and returns.
RankReturns ==
    /\ pc = "loop"
    /\ pc' = "done"
    /\ candidates # <<>>
    /\ rank_exc' = "none"

\* C28: the list rank_candidates returns is a permutation of the candidates
\* of the list passed in; the list passed in keeps its length and order, and
\* each of its candidates is changed under the keys overall_score and
\* skills_match only.
C28_RankPermutesCandidates ==
    [][RankReturns =>
         /\ \E p \in Permutations(DOMAIN candidates) :
              ranked' = [i \in DOMAIN candidates |-> candidates'[p[i]]]
         /\ DOMAIN candidates' = DOMAIN candidates
         /\ \A i \in DOMAIN candidates :
              OnlyScoresSet(candidates[i], candidates'[i])]_vars

\* rank_candidates returned every candidate with its scores set, the last of
\* the list passed in first.
C28_Witness ==
    /\ BatchDone
    /\ rank_exc = "none"
    /\ Len(ranked) = MaxResumes
    /\ ranked[1].name = candidates[Len(candidates)].name
    /\ \A i \in DOMAIN candidates : candidates[i].skills_match # Absent

\* RankingEngine.calculate_match_score has run.
NormalizeDone == normalized.exc \notin {"off", "pending"}

\* v is a number of [0, 1].
InUnit(v) == v.t = "num" /\ 0 <= v.n /\ v.n <= MatchDen

\* C29: calculate_match_score of RankingEngine never raises.  When
\* _normalize_scores returned, the matching skills are lowercased required
\* skills, both match values lie in [0, 1], and the missing skills are the
\* lowercased required skills that are not matching, so that matching and
\* missing are disjoint and cover the required skills; on a failure the result
\* is the default.
C29_NormalizedResult ==
    NormalizeDone =>
        LET v == normalized.val
            req == normalized.requirements
            matching == {v.matching_skills[i] : i \in DOMAIN v.matching_skills}
            missing == {v.missing_skills[i] : i \in DOMAIN v.missing_skills}
        IN  /\ normalized.exc = "none"
            /\ IF normalized.caught # "none" THEN v = RankingDefault(req)
               ELSE /\ matching \subseteq LowerSet(req.required_skills)
                    /\ InUnit(v.experience_match)
                    /\ InUnit(v.education_match)
                    /\ v.missing_skills =
                         SelectSeq(LowerList(req.required_skills),
                                   LAMBDA s : s \notin matching)
                    /\ matching \cap missing = {}
                    /\ matching \cup missing = LowerSet(req.required_skills)
====
